---- MODULE Spec2Model ----
(***************************************************************************)
(* Model of the freqtrade monitoring strategies                            *)
(*   user_data/strategies/MonitoringStrategy.py      (the real strategy)   *)
(*   user_data/strategies/MonitoringStrategyMock.py  (the mock strategy)   *)
(*                                                                         *)
(* One strategy instance is modelled.  Its class (cls) and the value of    *)
(* the class attribute TEST_MODE are fixed when the instance is built.     *)
(* An evaluation cycle is one call of populate_entry_trend; it is cut into *)
(* three steps at the places where it reads or writes the shared           *)
(* rate-limit timestamp or talks to the network:                           *)
(*   populate_entry_trend     entry, row check, clock read, cooldown gate  *)
(*   AssembleSnapshot         row access, snapshot, entry of the sender    *)
(*   requests_post            the POST, its outcome, the timestamp update  *)
(* Times are whole seconds.  Floating point values are integers; scores    *)
(* are kept in hundredths (0.5 is 50); x * 1.001 and x * 0.999 are         *)
(* compared after scaling both sides by 1000.                              *)
(***************************************************************************)
EXTENDS Integers, FiniteSets, Sequences, TLC

VARIABLES
    cls,                    \* which class the instance is
    TEST_MODE,              \* the class attribute TEST_MODE
    clock,                  \* what datetime.now() returns
    last_portfolio_signal,  \* self.last_portfolio_signal
    mock_cycles,            \* self.mock_cycles (mock only)
    pc,                     \* position of each evaluation thread
    cyc,                    \* the locals and the record of each thread's cycle
    probe,                  \* inputs and results of the classifier functions
    twin                    \* two instances, one of each class, run side by side

vars == <<cls, TEST_MODE, clock, last_portfolio_signal, mock_cycles, pc, cyc, probe, twin>>

----------------------------------------------------------------------------
(* Bounds of the model *)

\* how many of the clock readings below the environment may produce
MaxReadings == 6
\* the mock stops starting cycles when its scenario counter reaches this
MaxMockCycles == 6

\* the clock readings, in seconds: inside, at the end of and past the 30 s and
\* the 300 s cooldown, counted from a dispatch at 0 and from one at 10
ReadingSeq == <<0, 10, 30, 290, 300, 310, 600, 610>>
ClockReadings ==
    {ReadingSeq[i] : i \in {j \in 1..Len(ReadingSeq) : j <= MaxReadings}}

Threads == {1, 2}

----------------------------------------------------------------------------
(* Values *)

\* Python's None for the timestamp
None == -1
\* an undefined indicator value: NaN, or a key that is absent (pd.isna is true)
NaN == -999999
\* a value that is not a number (arithmetic and float() on it raise)
BAD == -888888
\* JSON null in the payload
Null == -777777

REAL == "MonitoringStrategy"
MOCK == "MonitoringStrategyMock"

PORTFOLIO_COINS ==
    {"BTC/USDT", "ETH/USDT", "ADA/USDT", "DOT/USDT", "LINK/USDT", "MATIC/USDT"}

\* the pairs the host calls the strategy with
Pairs == {"BTC/USDT", "ETH/USDT", "XRP/USDT"}

\* len(dataframe)
Lens == {49, 50}

_extract_coin_symbol(pair) ==
    CASE pair = "BTC/USDT" -> "BTC"
      [] pair = "ETH/USDT" -> "ETH"
      [] pair = "ADA/USDT" -> "ADA"
      [] pair = "DOT/USDT" -> "DOT"
      [] pair = "LINK/USDT" -> "LINK"
      [] pair = "MATIC/USDT" -> "MATIC"
      [] OTHER -> "XRP"

pd_isna(v) == v = NaN

----------------------------------------------------------------------------
(* Indicator rows.  A row maps indicator names to values; a key that is    *)
(* absent and a NaN value are both "undefined" (pd.isna(row.get(k))).      *)

RowFields ==
    {"rsi", "macd", "macdsignal", "close", "bb_upper", "bb_lower",
     "volume", "volume_sma", "ma_20", "ma_50", "ema_12", "ema_26"}

\* the empty dict {} : every key is absent
EmptyRow == [k \in RowFields |-> NaN]

\* Python's  sub in s  for the two substrings the code looks for
str_contains(s, sub) ==
    CASE sub = "bullish" -> s = "bullish_crossover"
      [] sub = "bearish" -> s \in {"bearish_crossover", "bearish_divergence"}
      [] OTHER -> FALSE

----------------------------------------------------------------------------
(* MonitoringStrategy: the signal classifier *)

\* a status that reports the side the MACD line is on, not the crossing
_determine_macd_status_Level(current, previous) ==
    IF pd_isna(current["macd"]) \/ pd_isna(current["macdsignal"]) THEN "neutral"
    ELSE IF pd_isna(previous["macd"]) \/ pd_isna(previous["macdsignal"]) THEN "neutral"
    ELSE IF current["macd"] > current["macdsignal"] THEN "bullish_crossover"
    ELSE IF previous["macd"] >= previous["macdsignal"]
              /\ current["macd"] < current["macdsignal"]
        THEN "bearish_crossover"
    ELSE IF current["macd"] < current["macdsignal"] THEN "bearish_divergence"
    ELSE "neutral"

\* crossovers that need a strict inequality on the previous row
_determine_macd_status_Strict(current, previous) ==
    IF pd_isna(current["macd"]) \/ pd_isna(current["macdsignal"]) THEN "neutral"
    ELSE IF pd_isna(previous["macd"]) \/ pd_isna(previous["macdsignal"]) THEN "neutral"
    ELSE IF previous["macd"] < previous["macdsignal"]
              /\ current["macd"] > current["macdsignal"]
        THEN "bullish_crossover"
    ELSE IF previous["macd"] > previous["macdsignal"]
              /\ current["macd"] < current["macdsignal"]
        THEN "bearish_crossover"
    ELSE IF current["macd"] < current["macdsignal"] THEN "bearish_divergence"
    ELSE "neutral"

_determine_macd_status(current, previous) ==
    IF pd_isna(current["macd"]) \/ pd_isna(current["macdsignal"]) THEN "neutral"
    ELSE IF pd_isna(previous["macd"]) \/ pd_isna(previous["macdsignal"]) THEN "neutral"
    ELSE LET curr_macd == current["macd"]
             curr_signal == current["macdsignal"]
             prev_macd == previous["macd"]
             prev_signal == previous["macdsignal"]
         IN  IF prev_macd <= prev_signal /\ curr_macd > curr_signal
                 THEN "bullish_crossover"
             ELSE IF prev_macd >= prev_signal /\ curr_macd < curr_signal
                 THEN "bearish_crossover"
             ELSE IF curr_macd < curr_signal
                 THEN "bearish_divergence"
             ELSE "neutral"

\* the tolerances on the far side of each band
_determine_bb_position_OutsideTolerance(current) ==
    IF pd_isna(current["close"]) \/ pd_isna(current["bb_upper"])
          \/ pd_isna(current["bb_lower"])
        THEN "middle_band"
    ELSE IF current["close"] * 1000 <= current["bb_lower"] * 999
        THEN "lower_band_bounce"
    ELSE IF current["close"] * 1000 >= current["bb_upper"] * 1001
        THEN "upper_band_bounce"
    ELSE IF current["close"] > current["bb_upper"] THEN "upper_band"
    ELSE IF current["close"] < current["bb_lower"] THEN "lower_band"
    ELSE "middle_band"

\* the two bounce tests in the other order
_determine_bb_position_UpperFirst(current) ==
    IF pd_isna(current["close"]) \/ pd_isna(current["bb_upper"])
          \/ pd_isna(current["bb_lower"])
        THEN "middle_band"
    ELSE IF current["close"] * 1000 >= current["bb_upper"] * 999
        THEN "upper_band_bounce"
    ELSE IF current["close"] * 1000 <= current["bb_lower"] * 1001
        THEN "lower_band_bounce"
    ELSE IF current["close"] > current["bb_upper"] THEN "upper_band"
    ELSE IF current["close"] < current["bb_lower"] THEN "lower_band"
    ELSE "middle_band"

_determine_bb_position(current) ==
    IF pd_isna(current["close"]) \/ pd_isna(current["bb_upper"])
          \/ pd_isna(current["bb_lower"])
        THEN "middle_band"
    ELSE LET price == current["close"]
             bb_upper == current["bb_upper"]
             bb_lower == current["bb_lower"]
         IN  \* price <= bb_lower * 1.001
             IF price * 1000 <= bb_lower * 1001 THEN "lower_band_bounce"
             \* price >= bb_upper * 0.999
             ELSE IF price * 1000 >= bb_upper * 999 THEN "upper_band_bounce"
             ELSE IF price > bb_upper THEN "upper_band"
             ELSE IF price < bb_lower THEN "lower_band"
             ELSE "middle_band"

\* min(1.0, max(0.0, x)) in hundredths
Clamp01(x) == IF x < 0 THEN 0 ELSE IF x > 100 THEN 100 ELSE x

\* the score without the pd.isna guards of lines 125 and 140
_calculate_signal_strength_Unguarded(current, signals) ==
    LET s0 == 50
        s1 == IF current["rsi"] < 30 THEN s0 + 20
              ELSE IF current["rsi"] > 70 THEN s0 + 10
              ELSE s0
        macd_status == _determine_macd_status(current, EmptyRow)
        s2 == IF str_contains(macd_status, "bullish") THEN s1 + 15
              ELSE IF str_contains(macd_status, "bearish") THEN s1 + 10
              ELSE s1
        s3 == IF current["volume"] * 10 > current["volume_sma"] * 15
                 THEN s2 + 10 ELSE s2
        s4 == IF Len(signals) > 2 THEN s3 + 5 ELSE s3
    IN  Clamp01(s4)

_calculate_signal_strength(current, signals) ==
    LET s0 == 50
        s1 == IF ~pd_isna(current["rsi"])
                 THEN (IF current["rsi"] < 30 THEN s0 + 20
                       ELSE IF current["rsi"] > 70 THEN s0 + 10
                       ELSE s0)
                 ELSE s0
        \* line 133: the previous row passed is the empty dict
        macd_status == _determine_macd_status(current, EmptyRow)
        s2 == IF str_contains(macd_status, "bullish") THEN s1 + 15
              ELSE IF str_contains(macd_status, "bearish") THEN s1 + 10
              ELSE s1
        s3 == IF ~pd_isna(current["volume"]) /\ ~pd_isna(current["volume_sma"])
                 THEN (IF current["volume"] * 10 > current["volume_sma"] * 15
                          THEN s2 + 10 ELSE s2)
                 ELSE s2
        s4 == IF Len(signals) > 2 THEN s3 + 5 ELSE s3
    IN  Clamp01(s4)

\* an undefined value replaced by the default of current.get, 0.0
FloatOr_ZeroDefault(current, k, dflt) ==
    IF ~pd_isna(current[k]) THEN current[k] ELSE 0

\* float(current.get(k, d)) if not pd.isna(current.get(k)) else dflt
FloatOr(current, k, dflt) == IF ~pd_isna(current[k]) THEN current[k] ELSE dflt

\* evaluating the dict literal of lines 260-277 raises (float() of a value
\* that is not a number)
SnapshotRaises(current, previous) ==
    \E k \in {"rsi", "ma_20", "ma_50", "ema_12", "ema_26", "volume"} : current[k] = BAD

\* the dict portfolio_signal of lines 260-277
PortfolioSignal(pair, current, previous, current_time) ==
    [coin |-> _extract_coin_symbol(pair),
     rsi |-> FloatOr(current, "rsi", 50),
     macd |-> _determine_macd_status(current, previous),
     bb_position |-> _determine_bb_position(current),
     sma_20 |-> FloatOr(current, "ma_20", Null),
     sma_50 |-> FloatOr(current, "ma_50", Null),
     ema_12 |-> FloatOr(current, "ema_12", Null),
     ema_26 |-> FloatOr(current, "ema_26", Null),
     volume_24h |-> FloatOr(current, "volume", Null),
     timestamp |-> current_time,
     signal_strength |-> _calculate_signal_strength(current, <<>>),
     pair |-> pair]

----------------------------------------------------------------------------
(* MonitoringStrategyMock: scenarios and the classifier behind TEST_MODE *)

\* self.mock_scenarios; rsi_range as <<low, high>>, signal_strength in hundredths
mock_scenarios ==
    << [name |-> "bullish_trend", rsi_range |-> <<35, 45>>,
        macd |-> "bullish_crossover", bb_position |-> "lower_band_bounce",
        signal_strength |-> 75],
       [name |-> "bearish_trend", rsi_range |-> <<65, 75>>,
        macd |-> "bearish_crossover", bb_position |-> "upper_band_bounce",
        signal_strength |-> 65],
       [name |-> "neutral_market", rsi_range |-> <<45, 55>>,
        macd |-> "neutral", bb_position |-> "middle_band",
        signal_strength |-> 50],
       [name |-> "oversold_bounce", rsi_range |-> <<25, 35>>,
        macd |-> "bullish_crossover", bb_position |-> "lower_band_bounce",
        signal_strength |-> 85],
       [name |-> "overbought_correction", rsi_range |-> <<70, 80>>,
        macd |-> "bearish_divergence", bb_position |-> "upper_band",
        signal_strength |-> 70] >>

\* base_prices, in hundredths of a dollar
base_prices(coin) ==
    CASE coin = "BTC" -> 4500000
      [] coin = "ETH" -> 300000
      [] coin = "ADA" -> 50
      [] coin = "DOT" -> 2500
      [] coin = "LINK" -> 1500
      [] coin = "MATIC" -> 120
      [] OTHER -> 10000

\* volume_multipliers, in millions of dollars
volume_multipliers(coin) ==
    CASE coin = "BTC" -> 25000
      [] coin = "ETH" -> 15000
      [] coin = "ADA" -> 500
      [] coin = "DOT" -> 400
      [] coin = "LINK" -> 600
      [] coin = "MATIC" -> 300
      [] OTHER -> 100

\* what the seeded random.uniform calls may draw: the low or the high end of
\* every range (the seed comes from hash() of a string, which differs from
\* process to process)
RandomDraws == {"low", "high"}

\* the scenario picked after the counter has advanced
ScenarioIndex_AfterIncrement(cycles) == ((cycles + 1) % Len(mock_scenarios)) + 1

\* the scenario index of line 122
ScenarioIndex(cycles) == (cycles % Len(mock_scenarios)) + 1

_generate_mock_indicators(coin, cycles, draw) ==
    LET scenario == mock_scenarios[ScenarioIndex(cycles)]
        mock_rsi == IF draw = "low" THEN scenario.rsi_range[1]
                                    ELSE scenario.rsi_range[2]
        price_variation == IF draw = "low" THEN 95 ELSE 105
        mock_price == (base_prices(coin) * price_variation) \div 100
        sma_20 == (mock_price * (IF draw = "low" THEN 98 ELSE 102)) \div 100
        sma_50 == (mock_price * (IF draw = "low" THEN 96 ELSE 104)) \div 100
        ema_12 == (mock_price * (IF draw = "low" THEN 99 ELSE 101)) \div 100
        ema_26 == (mock_price * (IF draw = "low" THEN 97 ELSE 103)) \div 100
        mock_volume == (volume_multipliers(coin)
                           * (IF draw = "low" THEN 80 ELSE 150)) \div 100
    IN  [rsi |-> mock_rsi,
         macd |-> scenario.macd,
         bb_position |-> scenario.bb_position,
         sma_20 |-> sma_20,
         sma_50 |-> sma_50,
         ema_12 |-> ema_12,
         ema_26 |-> ema_26,
         volume_24h |-> mock_volume,
         signal_strength |-> scenario.signal_strength,
         scenario |-> scenario.name]

\* getattr(self, '_current_mock_macd', 'neutral') and its two siblings: the
\* attributes are written by populate_indicators only, which this model does
\* not run, so the getattr defaults are what a read returns
_current_mock_macd == "neutral"
_current_mock_bb == "middle_band"
_current_mock_strength == 50

\* a copy of the classifier that has drifted from the original: the
\* crossover needs the MACD strictly on the other side one candle earlier
Mock_determine_macd_status_Drifted(test_mode, current, previous) ==
    IF test_mode THEN _current_mock_macd
    ELSE _determine_macd_status_Strict(current, previous)

Mock_determine_macd_status(test_mode, current, previous) ==
    IF test_mode THEN _current_mock_macd
    ELSE IF pd_isna(current["macd"]) \/ pd_isna(current["macdsignal"]) THEN "neutral"
    ELSE IF pd_isna(previous["macd"]) \/ pd_isna(previous["macdsignal"]) THEN "neutral"
    ELSE LET curr_macd == current["macd"]
             curr_signal == current["macdsignal"]
             prev_macd == previous["macd"]
             prev_signal == previous["macdsignal"]
         IN  IF prev_macd <= prev_signal /\ curr_macd > curr_signal
                 THEN "bullish_crossover"
             ELSE IF prev_macd >= prev_signal /\ curr_macd < curr_signal
                 THEN "bearish_crossover"
             ELSE IF curr_macd < curr_signal
                 THEN "bearish_divergence"
             ELSE "neutral"

Mock_determine_bb_position(test_mode, current) ==
    IF test_mode THEN _current_mock_bb
    ELSE IF pd_isna(current["close"]) \/ pd_isna(current["bb_upper"])
          \/ pd_isna(current["bb_lower"])
        THEN "middle_band"
    ELSE LET price == current["close"]
             bb_upper == current["bb_upper"]
             bb_lower == current["bb_lower"]
         IN  IF price * 1000 <= bb_lower * 1001 THEN "lower_band_bounce"
             ELSE IF price * 1000 >= bb_upper * 999 THEN "upper_band_bounce"
             ELSE IF price > bb_upper THEN "upper_band"
             ELSE IF price < bb_lower THEN "lower_band"
             ELSE "middle_band"

Mock_calculate_signal_strength(test_mode, current, signals) ==
    IF test_mode THEN _current_mock_strength
    ELSE
    LET s0 == 50
        s1 == IF ~pd_isna(current["rsi"])
                 THEN (IF current["rsi"] < 30 THEN s0 + 20
                       ELSE IF current["rsi"] > 70 THEN s0 + 10
                       ELSE s0)
                 ELSE s0
        macd_status == Mock_determine_macd_status(test_mode, current, EmptyRow)
        s2 == IF str_contains(macd_status, "bullish") THEN s1 + 15
              ELSE IF str_contains(macd_status, "bearish") THEN s1 + 10
              ELSE s1
        s3 == IF ~pd_isna(current["volume"]) /\ ~pd_isna(current["volume_sma"])
                 THEN (IF current["volume"] * 10 > current["volume_sma"] * 15
                          THEN s2 + 10 ELSE s2)
                 ELSE s2
        s4 == IF Len(signals) > 2 THEN s3 + 5 ELSE s3
    IN  Clamp01(s4)

\* the dict portfolio_signal of the mock: lines 415-432 under TEST_MODE,
\* lines 438-455 otherwise
MockPortfolioSignal(test_mode, pair, current, previous, current_time, mock_data) ==
    IF test_mode
    THEN [coin |-> _extract_coin_symbol(pair),
          rsi |-> mock_data.rsi,
          macd |-> mock_data.macd,
          bb_position |-> mock_data.bb_position,
          sma_20 |-> mock_data.sma_20,
          sma_50 |-> mock_data.sma_50,
          ema_12 |-> mock_data.ema_12,
          ema_26 |-> mock_data.ema_26,
          volume_24h |-> mock_data.volume_24h,
          timestamp |-> current_time,
          signal_strength |-> mock_data.signal_strength,
          pair |-> pair]
    ELSE [coin |-> _extract_coin_symbol(pair),
          rsi |-> FloatOr(current, "rsi", 50),
          macd |-> Mock_determine_macd_status(test_mode, current, previous),
          bb_position |-> Mock_determine_bb_position(test_mode, current),
          sma_20 |-> FloatOr(current, "ma_20", Null),
          sma_50 |-> FloatOr(current, "ma_50", Null),
          ema_12 |-> FloatOr(current, "ema_12", Null),
          ema_26 |-> FloatOr(current, "ema_26", Null),
          volume_24h |-> FloatOr(current, "volume", Null),
          timestamp |-> current_time,
          signal_strength |-> Mock_calculate_signal_strength(test_mode, current, <<>>),
          pair |-> pair]

----------------------------------------------------------------------------
(* The rate limiter and the webhook response *)

\* the cooldown in seconds: the literal 300 of the real strategy (line 245),
\* rate_limit of the mock (line 394)
rate_limit(c, test_mode) ==
    IF c = REAL THEN 300 ELSE IF test_mode THEN 30 ELSE 300

\* the row check with the boundary on the wrong side
InsufficientData_OffByOne(n) == n <= 50

\* line 236: the dataframe is too short to evaluate
InsufficientData(n) == n < 50

\* the gate with the comparison the wrong way round
RateLimited_Inverted(last, current_time, window) ==
    /\ last # None
    /\ (current_time - last) > window

\* the gate with an inclusive comparison
RateLimited_Inclusive(last, current_time, window) ==
    /\ last # None
    /\ (current_time - last) <= window

\* lines 243-247: the cycle returns without dispatching
RateLimited(last, current_time, window) ==
    /\ last # None
    /\ (current_time - last) < window

\* what requests.post can do
HttpStatuses == {200, 204, 500}
\* the response body: JSON whose success flag (where the class looks for it) is
\* true, JSON without a true success flag, and text that is not JSON
Bodies == {"success", "failure", "unparsable"}
NoResp == [kind |-> "none", status |-> 0, body |-> "none"]
HttpOutcomes ==
    [kind : {"response"}, status : HttpStatuses, body : Bodies]
      \cup {[kind |-> "RequestException", status |-> 0, body |-> "none"],
            [kind |-> "Exception", status |-> 0, body |-> "none"]}

\* a status test that takes every answer of the server for a success
StatusIsSuccess_AnyStatus(status) == status >= 200

\* line 313: the branch that stores the timestamp
StatusIsSuccess(status) == status = 200

\* the timestamp stored before the outcome of the POST is known
UpdatesTimestamp_OnAnyOutcome(resp) == TRUE

\* lines 313-316: the attempt is recorded in the rate limiter
UpdatesTimestamp(resp) ==
    resp.kind = "response" /\ StatusIsSuccess(resp.status)

\* a sender that posts again when the attempt failed
PcAfterPost_Retry(resp) ==
    IF resp.kind = "response" /\ resp.status = 200 THEN "idle" ELSE "post"

\* where the thread goes after the POST: every branch of lines 313-337 falls
\* off the end of _send_portfolio_webhook, whatever the outcome
PcAfterPost(resp) == "idle"

\* the exception classes the cycle can meet: float() of a malformed cell
\* raises ValueError or TypeError, a missing row or key IndexError or
\* KeyError, requests raises RequestException, and "Exception" stands for
\* any other subclass
ExceptionClasses ==
    {"ValueError", "TypeError", "KeyError", "IndexError", "RequestException",
     "Exception"}

\* what float() raises on a cell that is not a number
SnapshotError == "ValueError"

\* a handler written for absent rows and keys only
ExceptException_LookupOnly(kind) == kind \in {"KeyError", "IndexError"}

\* `except Exception` (lines 282 and 335) catches every class above
ExceptException(kind) == kind \in ExceptionClasses

\* a strategy that enters on a strong snapshot
EnterLong_StrongSignal(c) == IF c.signal.signal_strength >= 75 THEN 1 ELSE 0

\* lines 213 and 220: the enter_long column populate_entry_trend writes
EnterLong(c) == 0

\* line 229: the exit_long column populate_exit_trend writes
ExitLong(c) == 0

\* which of the messages of lines 313-337 is printed
Report(c, resp) ==
    CASE resp.kind = "RequestException" -> "connection_error"
      [] resp.kind = "Exception" -> "unexpected_error"
      [] resp.kind = "response" /\ ~StatusIsSuccess(resp.status) -> "webhook_failed"
      [] OTHER ->
           IF resp.body = "unparsable" THEN "could_not_parse"
           ELSE IF resp.body = "success" THEN "pipeline_triggered"
           ELSE "api_response_error"

----------------------------------------------------------------------------
(* Rows the host hands to an evaluation cycle *)

Row(rsi, macd, macdsignal, close, bb_upper, bb_lower, volume, volume_sma, ma) ==
    [k \in RowFields |->
        CASE k = "rsi" -> rsi
          [] k = "macd" -> macd
          [] k = "macdsignal" -> macdsignal
          [] k = "close" -> close
          [] k = "bb_upper" -> bb_upper
          [] k = "bb_lower" -> bb_lower
          [] k = "volume" -> volume
          [] k = "volume_sma" -> volume_sma
          [] OTHER -> ma]

\* <<current, previous>> with a current row float() cannot convert: a text
\* cell in rsi, and one in volume of a row that is otherwise well formed
MalformedRows ==
    { << Row(BAD, 1, 0, 10500, 11000, 10000, 200, 100, 10400),
         Row(40, 0, 0, 10400, 11000, 10000, 100, 100, 10400) >>,
      << Row(25, 1, 0, 10500, 11000, 10000, BAD, 100, 10400),
         Row(40, 0, 0, 10400, 11000, 10000, 100, 100, 10400) >> }

\* <<current, previous>> of the cycles of the state machine, as
\* populate_indicators leaves them (columns of floats): a bullish crossover on
\* high volume, and a dataframe whose indicators are still warming up
CycleRows ==
    { << Row(25, 1, 0, 10500, 11000, 10000, 200, 100, 10400),
         Row(40, 0, 0, 10400, 11000, 10000, 100, 100, 10400) >>,
      << Row(NaN, NaN, NaN, 10500, NaN, NaN, 100, NaN, NaN),
         Row(NaN, NaN, NaN, 10400, NaN, NaN, 100, NaN, NaN) >> }

NoSignal ==
    [coin |-> "none", rsi |-> Null, macd |-> "none", bb_position |-> "none",
     sma_20 |-> Null, sma_50 |-> Null, ema_12 |-> Null, ema_26 |-> Null,
     volume_24h |-> Null, timestamp |-> None, signal_strength |-> Null,
     pair |-> "none"]

NoCycle ==
    [pair |-> "none", n |-> 0, current |-> EmptyRow, previous |-> EmptyRow,
     gate_time |-> None, before |-> None, mock_before |-> 0,
     send_time |-> None, posts |-> 0, resp |-> NoResp, signal |-> NoSignal,
     outcome |-> "none", report |-> "none", enter_long |-> None,
     exit_long |-> None, after_failure |-> FALSE]

\* the POST of cycle c raised or came back with a status other than 200
FailedAttempt(c) ==
    /\ c.posts >= 1
    /\ (c.resp.kind \in {"RequestException", "Exception"}
          \/ (c.resp.kind = "response" /\ c.resp.status # 200))

\* older is the row before previous; macd_previous is the status the cycle
\* one candle earlier computed (previous against older)
NoProbe ==
    [current |-> EmptyRow, previous |-> EmptyRow, older |-> EmptyRow,
     done |-> FALSE, macd |-> "none", macd_previous |-> "none",
     bb_position |-> "none", signal |-> NoSignal]

\* one instance of the side-by-side run: its timestamp and what its last
\* cycle did
NoInstance ==
    [last_portfolio_signal |-> None, posted |-> FALSE, signal |-> NoSignal,
     outcome |-> "none"]

NoTwin == [real |-> NoInstance, mock |-> NoInstance]

----------------------------------------------------------------------------
(* The state machine *)

Init ==
    /\ cls \in {REAL, MOCK}
    /\ TEST_MODE \in BOOLEAN
    /\ (cls = REAL => TEST_MODE)
    /\ clock = 0
    /\ last_portfolio_signal = None
    /\ mock_cycles = 0
    /\ pc = [t \in Threads |-> "idle"]
    /\ cyc = [t \in Threads |-> NoCycle]
    /\ probe = NoProbe
    /\ twin = NoTwin

\* datetime.now() moves on
Tick(now) ==
    /\ now > clock
    /\ clock' = now
    /\ UNCHANGED <<cls, TEST_MODE, last_portfolio_signal, mock_cycles, pc, cyc, probe, twin>>

\* populate_entry_trend up to the cooldown gate of _check_and_send_signals
populate_entry_trend(t, pair, n, rows) ==
    /\ pc[t] = "idle"
    /\ (cls = MOCK /\ TEST_MODE) => mock_cycles < MaxMockCycles
    /\ LET entry == [NoCycle EXCEPT !.pair = pair, !.n = n,
                                    !.current = rows[1], !.previous = rows[2],
                                    !.before = last_portfolio_signal,
                                    !.mock_before = mock_cycles,
                                    !.after_failure = FailedAttempt(cyc[t])]
           current_time == clock
       IN  IF pair \notin PORTFOLIO_COINS
           THEN /\ cyc' = [cyc EXCEPT ![t] = [entry EXCEPT !.outcome = "unmonitored",
                                                          !.enter_long = EnterLong(entry)]]
                /\ pc' = pc
           ELSE IF InsufficientData(n)
           THEN /\ cyc' = [cyc EXCEPT ![t] = [entry EXCEPT !.outcome = "insufficient_data",
                                                          !.enter_long = EnterLong(entry)]]
                /\ pc' = pc
           ELSE IF RateLimited(last_portfolio_signal, current_time,
                               rate_limit(cls, TEST_MODE))
           THEN /\ cyc' = [cyc EXCEPT ![t] = [entry EXCEPT !.gate_time = current_time,
                                                          !.outcome = "rate_limited",
                                                          !.enter_long = EnterLong(entry)]]
                /\ pc' = pc
           ELSE /\ cyc' = [cyc EXCEPT ![t] = [entry EXCEPT !.gate_time = current_time,
                                                          !.outcome = "running"]]
                /\ pc' = [pc EXCEPT ![t] = "assemble"]
    /\ UNCHANGED <<cls, TEST_MODE, clock, last_portfolio_signal, mock_cycles, probe, twin>>

\* the try block of _check_and_send_signals up to the clock read that opens
\* _send_portfolio_webhook
AssembleSnapshot(t, draw) ==
    /\ pc[t] = "assemble"
    /\ LET c == cyc[t]
           mock_data == _generate_mock_indicators(_extract_coin_symbol(c.pair),
                                                  mock_cycles, draw)
       IN  IF cls = MOCK /\ TEST_MODE
           THEN /\ mock_cycles' = mock_cycles + 1
                /\ cyc' = [cyc EXCEPT ![t] =
                      [c EXCEPT !.signal = MockPortfolioSignal(TEST_MODE, c.pair,
                                               c.current, c.previous, c.gate_time,
                                               mock_data),
                                !.send_time = clock]]
                /\ pc' = [pc EXCEPT ![t] = "post"]
           ELSE IF SnapshotRaises(c.current, c.previous)
           THEN /\ IF ExceptException(SnapshotError)
                   THEN /\ cyc' = [cyc EXCEPT ![t] =
                              [c EXCEPT !.outcome = "aborted",
                                        !.enter_long = EnterLong(c)]]
                        /\ pc' = [pc EXCEPT ![t] = "idle"]
                   ELSE /\ cyc' = [cyc EXCEPT ![t] = [c EXCEPT !.outcome = "raised"]]
                        /\ pc' = [pc EXCEPT ![t] = "crashed"]
                /\ mock_cycles' = mock_cycles
           ELSE /\ cyc' = [cyc EXCEPT ![t] =
                      [c EXCEPT !.signal =
                                   IF cls = REAL
                                   THEN PortfolioSignal(c.pair, c.current, c.previous,
                                                        c.gate_time)
                                   ELSE MockPortfolioSignal(TEST_MODE, c.pair,
                                               c.current, c.previous, c.gate_time,
                                               mock_data),
                                !.send_time = clock]]
                /\ pc' = [pc EXCEPT ![t] = "post"]
                /\ mock_cycles' = mock_cycles
    /\ UNCHANGED <<cls, TEST_MODE, clock, last_portfolio_signal, probe, twin>>

\* requests.post and the handling of its outcome, then the return through
\* _check_and_send_signals to populate_entry_trend
requests_post(t, resp) ==
    /\ pc[t] = "post"
    /\ LET c == cyc[t]
           current_time == c.send_time
           sent == [c EXCEPT !.posts = c.posts + 1, !.resp = resp]
           handled == \/ resp.kind = "response"
                      \/ resp.kind = "RequestException"
                      \/ ExceptException(resp.kind)
       IN  /\ last_portfolio_signal' =
                  IF UpdatesTimestamp(resp) THEN current_time
                                            ELSE last_portfolio_signal
           /\ IF handled
              THEN /\ cyc' = [cyc EXCEPT ![t] =
                         [sent EXCEPT !.outcome = IF UpdatesTimestamp(resp)
                                                     THEN "sent"
                                                     ELSE "dispatch_failed",
                                      !.report = Report(cls, resp),
                                      !.enter_long = IF PcAfterPost(resp) = "idle"
                                                        THEN EnterLong(sent)
                                                        ELSE c.enter_long]]
                   /\ pc' = [pc EXCEPT ![t] = PcAfterPost(resp)]
              ELSE /\ cyc' = [cyc EXCEPT ![t] = [sent EXCEPT !.outcome = "raised"]]
                   /\ pc' = [pc EXCEPT ![t] = "crashed"]
    /\ UNCHANGED <<cls, TEST_MODE, clock, mock_cycles, probe, twin>>

\* populate_exit_trend on the dataframe populate_entry_trend has returned
populate_exit_trend(t) ==
    /\ pc[t] = "idle"
    /\ cyc[t].outcome # "none"
    /\ cyc[t].exit_long = None
    /\ cyc' = [cyc EXCEPT ![t] = [cyc[t] EXCEPT !.exit_long = ExitLong(cyc[t])]]
    /\ UNCHANGED <<cls, TEST_MODE, clock, last_portfolio_signal, mock_cycles, pc, probe, twin>>

\* strictly sequential evaluation: one thread runs all cycles
Next ==
    \/ \E now \in ClockReadings : Tick(now)
    \/ \E pair \in Pairs, n \in Lens, rows \in CycleRows :
           populate_entry_trend(1, pair, n, rows)
    \/ \E draw \in RandomDraws : AssembleSnapshot(1, draw)
    \/ \E resp \in HttpOutcomes : requests_post(1, resp)

Spec == Init /\ [][Next]_vars

----------------------------------------------------------------------------
(* The strategy as the host drives it: dataframes of any content, malformed *)
(* rows included, and populate_exit_trend after populate_entry_trend.       *)

\* the clock readings of the host runs: the start, and one reading inside,
\* at the end of, and past the cooldown of either class
HostReadings == {t \in ClockReadings : t \in {0, 10, 30, 300, 310}}

HostOutcomes == {resp \in HttpOutcomes : resp.body # "failure"}

NextHost ==
    \/ \E now \in HostReadings : Tick(now)
    \/ \E pair \in Pairs, n \in Lens, rows \in CycleRows \cup MalformedRows :
           populate_entry_trend(1, pair, n, rows)
    \/ \E draw \in RandomDraws : AssembleSnapshot(1, draw)
    \/ \E resp \in HostOutcomes : requests_post(1, resp)
    \/ populate_exit_trend(1)

SpecHost == Init /\ [][NextHost]_vars

----------------------------------------------------------------------------
(* MonitoringStrategy and MonitoringStrategyMock with TEST_MODE switched    *)
(* off, side by side: every cycle hands both the same dataframe, the same   *)
(* two clock readings and the same outcome of the POST.                     *)

\* one call of populate_entry_trend on an instance of class c whose timestamp
\* is last: the instance afterwards. gate_time is the reading of
\* _check_and_send_signals, send_time that of _send_portfolio_webhook.
RunCycle(c, test_mode, last, pair, n, rows, gate_time, send_time, resp) ==
    LET skipped(why) == [last_portfolio_signal |-> last, posted |-> FALSE,
                         signal |-> NoSignal, outcome |-> why]
        current == rows[1]
        previous == rows[2]
        mock_data == _generate_mock_indicators(_extract_coin_symbol(pair), 0, "low")
    IN  IF pair \notin PORTFOLIO_COINS THEN skipped("unmonitored")
        ELSE IF InsufficientData(n) THEN skipped("insufficient_data")
        ELSE IF RateLimited(last, gate_time, rate_limit(c, test_mode))
            THEN skipped("rate_limited")
        ELSE IF ~(c = MOCK /\ test_mode) /\ SnapshotRaises(current, previous)
            THEN skipped("aborted")
        ELSE [last_portfolio_signal |->
                  IF UpdatesTimestamp(resp) THEN send_time ELSE last,
              posted |-> TRUE,
              signal |-> IF c = REAL
                         THEN PortfolioSignal(pair, current, previous, gate_time)
                         ELSE MockPortfolioSignal(test_mode, pair, current,
                                                  previous, gate_time, mock_data),
              outcome |-> IF UpdatesTimestamp(resp) THEN "sent"
                                                    ELSE "dispatch_failed"]

\* dataframes of the side-by-side runs: the rows of the host runs and a
\* bearish candle below the lower band
SyncRows ==
    CycleRows \cup MalformedRows
      \cup { << Row(75, -1, 0, 9000, 11000, 10000, 100, 100, 10400),
                Row(60, 1, 0, 10400, 11000, 10000, 100, 100, 10400) >> }

SyncOutcomes == {resp \in HttpOutcomes : resp.body = "success" \/ resp.kind # "response"}

InitSync ==
    /\ cls = MOCK
    /\ TEST_MODE = FALSE
    /\ clock = 0
    /\ last_portfolio_signal = None
    /\ mock_cycles = 0
    /\ pc = [t \in Threads |-> "idle"]
    /\ cyc = [t \in Threads |-> NoCycle]
    /\ probe = NoProbe
    /\ twin = NoTwin

\* one evaluation cycle of both instances
SideBySide(pair, n, rows, gate_time, send_time, resp) ==
    /\ clock <= gate_time
    /\ gate_time <= send_time
    /\ clock' = send_time
    /\ twin' = [real |-> RunCycle(REAL, TRUE, twin.real.last_portfolio_signal,
                                  pair, n, rows, gate_time, send_time, resp),
                mock |-> RunCycle(cls, TEST_MODE, twin.mock.last_portfolio_signal,
                                  pair, n, rows, gate_time, send_time, resp)]
    /\ UNCHANGED <<cls, TEST_MODE, last_portfolio_signal, mock_cycles, pc, cyc, probe>>

NextSync ==
    \E pair \in Pairs, n \in Lens, rows \in SyncRows,
       gate_time \in ClockReadings, send_time \in ClockReadings,
       resp \in SyncOutcomes :
        SideBySide(pair, n, rows, gate_time, send_time, resp)

SpecSync == InitSync /\ [][NextSync]_vars

----------------------------------------------------------------------------
(* Concurrent evaluation: two threads of the host, one symbol each, run     *)
(* cycles on the same instance and interleave at the steps.                 *)

ConcPair(t) == IF t = 1 THEN "BTC/USDT" ELSE "ETH/USDT"

ConcRows == {rows \in CycleRows : ~pd_isna(rows[1]["rsi"])}

ConcOutcomes == {resp \in HttpOutcomes :
                    /\ resp.kind = "response"
                    /\ resp.status \in {200, 500}
                    /\ resp.body = "success"}

\* the clock readings of the concurrent runs: one inside and one at the end of
\* each cooldown
ConcReadings == {t \in ClockReadings : t \in {0, 30, 300}}

NextConc ==
    \/ \E now \in ConcReadings : Tick(now)
    \/ \E t \in Threads, rows \in ConcRows :
           populate_entry_trend(t, ConcPair(t), 50, rows)
    \/ \E t \in Threads : AssembleSnapshot(t, "low")
    \/ \E t \in Threads, resp \in ConcOutcomes : requests_post(t, resp)

SpecConc == Init /\ [][NextConc]_vars

----------------------------------------------------------------------------
(* The classifier functions on their own: the rows are drawn at the start, *)
(* Classify applies the functions of the real strategy to them.             *)

RsiVals == {NaN, 29, 30, 50, 70, 71}
MacdVals == {NaN, -1, 0, 1}
VolumeVals == {NaN, 150, 151}
VolumeSmaVals == {NaN, 100}
CloseVals == {NaN, -10005, -8995, -5, 0, 9000, 10000, 10003, 10010, 10011,
              10500, 10988, 10989, 11000, 11001, 12000}
BBLowerVals == {NaN, -10000, 0, 10000}
BBUpperVals == {NaN, -9000, 0, 10005, 11000}

\* rows that vary what the MACD status and the strength score read
ScoreRows ==
    { << Row(rsi, cm, cs, 10500, 11000, 10000, vol, vsma, 10400),
         Row(50, pm, ps, 10400, 11000, 10000, 100, 100, 10400) >> :
        rsi \in RsiVals, cm \in MacdVals, cs \in MacdVals,
        pm \in MacdVals, ps \in MacdVals,
        vol \in VolumeVals, vsma \in VolumeSmaVals }

\* rows that vary what the Bollinger position reads
BandRows ==
    { << Row(50, 0, 0, close, bbu, bbl, 100, 100, 10400),
         Row(50, 0, 0, 10400, 11000, 10000, 100, 100, 10400) >> :
        close \in CloseVals, bbu \in BBUpperVals, bbl \in BBLowerVals }

\* rows that vary what the snapshot copies: each moving average, the volume
\* and the rsi undefined, zero or positive
CopiedVals == {NaN, 0, 10400}
FieldRows ==
    { << [Row(rsi, 0, 0, 10500, 11000, 10000, vol, 100, NaN)
             EXCEPT !["ma_20"] = m20, !["ma_50"] = m50,
                    !["ema_12"] = e12, !["ema_26"] = e26],
         Row(50, 0, 0, 10400, 11000, 10000, 100, 100, 10400) >> :
        rsi \in {NaN, 0, 45}, vol \in CopiedVals,
        m20 \in CopiedVals, m50 \in CopiedVals,
        e12 \in CopiedVals, e26 \in CopiedVals }

\* rows with both bands above zero, in either order
PositiveBandRows ==
    { << Row(50, 0, 0, close, bbu, bbl, 100, 100, 10400),
         Row(50, 0, 0, 10400, 11000, 10000, 100, 100, 10400) >> :
        close \in {-5, 0, 1, 2, 8990, 8991, 8992, 9000, 9001, 10000, 10010,
                   10011, 15000, 19980, 20000, 20001},
        bbu \in {1, 9000, 10005, 20000}, bbl \in {1, 10000, 11000} }

\* three consecutive candles with defined MACD values: <<current, previous,
\* older>>
CandleVals == {-1, 0, 1}
CandleRows ==
    { << Row(50, m2, s2, 10500, 11000, 10000, 100, 100, 10400),
         Row(50, m1, s1, 10400, 11000, 10000, 100, 100, 10400),
         Row(50, m0, s0, 10300, 11000, 10000, 100, 100, 10400) >> :
        m0 \in CandleVals, s0 \in CandleVals, m1 \in CandleVals,
        s1 \in CandleVals, m2 \in CandleVals, s2 \in CandleVals }

\* <<current, previous, older>>; the dataframe of a pair of rows has no
\* indicator values before them
ProbeRows ==
    { << rows[1], rows[2], EmptyRow >> :
        rows \in ScoreRows \cup BandRows \cup FieldRows \cup PositiveBandRows }
      \cup CandleRows

InitClassifier ==
    /\ cls = REAL
    /\ TEST_MODE = TRUE
    /\ clock = 0
    /\ last_portfolio_signal = None
    /\ mock_cycles = 0
    /\ pc = [t \in Threads |-> "idle"]
    /\ cyc = [t \in Threads |-> NoCycle]
    /\ twin = NoTwin
    /\ \E rows \in ProbeRows :
           probe = [NoProbe EXCEPT !.current = rows[1], !.previous = rows[2],
                                   !.older = rows[3]]

Classify ==
    /\ ~probe.done
    /\ probe' = [probe EXCEPT
                   !.done = TRUE,
                   !.macd = _determine_macd_status(probe.current, probe.previous),
                   !.macd_previous = _determine_macd_status(probe.previous,
                                                            probe.older),
                   !.bb_position = _determine_bb_position(probe.current),
                   !.signal = PortfolioSignal("BTC/USDT", probe.current,
                                              probe.previous, clock)]
    /\ UNCHANGED <<cls, TEST_MODE, clock, last_portfolio_signal, mock_cycles, pc, cyc, twin>>

NextClassifier == Classify

SpecClassifier == InitClassifier /\ [][NextClassifier]_vars

----------------------------------------------------------------------------
(* Properties.  Under Spec the cycles run on thread 1; Cycle is the cycle   *)
(* in progress or, when the thread is idle, the cycle that ran last.        *)

Cycle == cyc[1]
Returned == pc[1] = "idle" /\ Cycle.outcome # "none"
Monitored == Cycle.pair \in PORTFOLIO_COINS
PostFailed == FailedAttempt(Cycle)

\* C1: a dispatch attempt that fails (the POST raises a transport exception,
\* raises any other exception, or returns a status that is not a success)
\* leaves last_portfolio_signal exactly as it was before the attempt.
C1_FailedDispatchKeepsTimestamp ==
    (Returned /\ PostFailed) => last_portfolio_signal = Cycle.before

\* a POST answered with HTTP 500 after an earlier successful dispatch
C1_Witness ==
    /\ Returned
    /\ PostFailed
    /\ Cycle.resp.status = 500
    /\ Cycle.before # None

\* C2: for every response whose status is 2xx (200..299) the rate-limit
\* timestamp is updated, whatever the body, and the call returns normally.
C2_Any2xxUpdatesTimestamp ==
    (Returned /\ Cycle.posts = 1 /\ Cycle.resp.kind = "response"
        /\ Cycle.resp.status \in 200..299)
      => (last_portfolio_signal = Cycle.send_time /\ Cycle.enter_long = 0)

\* C3: a cycle with at least 50 rows for a monitored symbol is suppressed
\* (returns at the cooldown gate and issues no POST) if and only if a
\* timestamp is recorded and now - last < W, with W = 300 in the real strategy
\* and 30 in the mock under TEST_MODE; otherwise it goes on to dispatch.
C3_SuppressedIffInsideWindow ==
    (Monitored /\ Cycle.n >= 50 /\ (cls = REAL \/ TEST_MODE))
      => LET W == IF cls = REAL THEN 300 ELSE 30
             inside == Cycle.before # None /\ Cycle.gate_time - Cycle.before < W
         IN  /\ (Cycle.outcome = "rate_limited") <=> inside
             /\ inside => (Cycle.posts = 0 /\ Returned)
             /\ (~inside /\ Returned) => Cycle.posts = 1

\* a cycle for ETH/USDT is suppressed 290 s after a dispatch of the real
\* strategy
C3_Witness ==
    /\ cls = REAL
    /\ Cycle.pair = "ETH/USDT"
    /\ Cycle.outcome = "rate_limited"
    /\ Cycle.gate_time - Cycle.before = 290

\* C4: after a cycle whose dispatch failed, the next cycle with at least 50
\* rows is not suppressed by the rate limiter, at any later time and whatever
\* the earlier successes, and issues a new POST.
C4_RetryAfterFailure ==
    (Cycle.after_failure /\ Monitored /\ Cycle.n >= 50)
      => /\ Cycle.outcome # "rate_limited"
         /\ Returned => Cycle.posts = 1

\* the cycle that follows a failed dispatch has posted, with no time passed
\* since an earlier success was recorded
C4_Witness ==
    /\ Cycle.after_failure
    /\ Returned
    /\ Cycle.posts = 1
    /\ Cycle.before # None
    /\ Cycle.gate_time - Cycle.before >= 300

\* C5: with fewer than 50 rows the cycle exits early: no POST, timestamp and
\* mock_cycles unchanged, normal return; with exactly 50 rows it reaches the
\* cooldown gate.
C5_InsufficientDataExitsEarly ==
    Monitored
      => /\ Cycle.n < 50 =>
              /\ Cycle.outcome = "insufficient_data"
              /\ Returned
              /\ Cycle.posts = 0
              /\ Cycle.gate_time = None
              /\ last_portfolio_signal = Cycle.before
              /\ mock_cycles = Cycle.mock_before
              /\ Cycle.enter_long = 0
         /\ Cycle.n = 50 =>
              /\ Cycle.outcome # "insufficient_data"
              /\ Cycle.gate_time # None

\* a 49-row cycle of the mock returned after earlier dispatches
C5_Witness ==
    /\ Monitored
    /\ Cycle.n = 49
    /\ Cycle.outcome = "insufficient_data"
    /\ Cycle.before # None
    /\ Cycle.mock_before > 0

\* C6: with two symbols evaluated concurrently, the check and the update of
\* the rate limiter are atomic: two cycles never both pass the gate and both
\* dispatch inside one cooldown window.
C6_GateIsAtomic ==
    \A t1 \in Threads, t2 \in Threads :
        (t1 # t2 /\ cyc[t1].outcome = "sent" /\ cyc[t2].outcome = "sent")
          => \/ cyc[t1].send_time - cyc[t2].send_time >= rate_limit(cls, TEST_MODE)
             \/ cyc[t2].send_time - cyc[t1].send_time >= rate_limit(cls, TEST_MODE)

\* C7: one evaluation cycle issues at most one POST, whatever its outcome;
\* a further attempt belongs to a later cycle.
C7_OnePostPerCycle ==
    /\ Cycle.posts <= 1
    /\ Cycle.posts = 1 => Returned

\* a cycle whose only POST failed has returned
C7_Witness ==
    /\ Returned
    /\ Cycle.posts = 1
    /\ Cycle.resp.kind = "RequestException"

\* the score of the specification, in hundredths
ReferenceScore(current, macd_status, events) ==
    LET rsi == IF pd_isna(current["rsi"]) THEN 0
               ELSE IF current["rsi"] < 30 THEN 20
               ELSE IF current["rsi"] > 70 THEN 10 ELSE 0
        macd == IF macd_status = "bullish_crossover" THEN 15
                ELSE IF macd_status \in {"bearish_crossover", "bearish_divergence"}
                THEN 10 ELSE 0
        volume == IF pd_isna(current["volume"]) \/ pd_isna(current["volume_sma"])
                     THEN 0
                  ELSE IF 2 * current["volume"] > 3 * current["volume_sma"]
                     THEN 10 ELSE 0
        count == IF events > 2 THEN 5 ELSE 0
        total == 50 + rsi + macd + volume + count
    IN  IF total > 100 THEN 100 ELSE total

\* C8: the signal_strength of a snapshot of the real strategy is the reference
\* score, whose MACD term uses the status derived from the current and the
\* previous row (the status the snapshot carries).
C8_StrengthIsReferenceScore ==
    probe.done
      => probe.signal.signal_strength
           = ReferenceScore(probe.current, probe.signal.macd, 0)

\* C9: for defined MACD values the status is bullish_crossover, bearish_crossover,
\* bearish_divergence or neutral exactly as the four rules say.
C9_MacdStatusRules ==
    LET cm == probe.current["macd"]
        cs == probe.current["macdsignal"]
        pm == probe.previous["macd"]
        ps == probe.previous["macdsignal"]
        bull == pm <= ps /\ cm > cs
        bear == pm >= ps /\ cm < cs
    IN  (probe.done /\ cm # NaN /\ cs # NaN /\ pm # NaN /\ ps # NaN)
          => /\ bull => probe.macd = "bullish_crossover"
             /\ bear => probe.macd = "bearish_crossover"
             /\ (cm < cs /\ ~bull /\ ~bear) => probe.macd = "bearish_divergence"
             /\ (~(cm < cs) /\ ~bull /\ ~bear) => probe.macd = "neutral"

\* a bearish crossover that starts from equality of the previous values
C9_Witness ==
    /\ probe.done
    /\ probe.previous["macd"] = 0
    /\ probe.previous["macdsignal"] = 0
    /\ probe.current["macd"] = -1
    /\ probe.current["macdsignal"] = 1
    /\ probe.macd = "bearish_crossover"

BandCategories ==
    {"lower_band_bounce", "upper_band_bounce", "upper_band", "lower_band",
     "middle_band"}

\* C10: for defined values with bb_lower < bb_upper the position is exactly
\* one category, the first in the order lower_band_bounce, upper_band_bounce,
\* upper_band, lower_band, middle_band whose test holds; when both bounce
\* tests hold it is lower_band_bounce.
C10_BandPositionFirstMatch ==
    LET close == probe.current["close"]
        upper == probe.current["bb_upper"]
        lower == probe.current["bb_lower"]
        lowerBounce == 1000 * close <= 1001 * lower
        upperBounce == 1000 * close >= 999 * upper
    IN  (probe.done /\ close # NaN /\ upper # NaN /\ lower # NaN /\ lower < upper)
          => /\ probe.bb_position \in BandCategories
             /\ lowerBounce <=> probe.bb_position = "lower_band_bounce"
             /\ (upperBounce /\ ~lowerBounce)
                   <=> probe.bb_position = "upper_band_bounce"
             /\ (close > upper /\ ~lowerBounce /\ ~upperBounce)
                   <=> probe.bb_position = "upper_band"
             /\ (close < lower /\ ~lowerBounce /\ ~upperBounce /\ ~(close > upper))
                   <=> probe.bb_position = "lower_band"
             /\ (lowerBounce /\ upperBounce)
                   => probe.bb_position = "lower_band_bounce"

\* narrow bands: the close satisfies both bounce tests
C10_Witness ==
    /\ probe.done
    /\ probe.current["bb_lower"] = 10000
    /\ probe.current["bb_upper"] = 10005
    /\ probe.current["close"] = 10003
    /\ probe.bb_position = "lower_band_bounce"

\* the same row with indicator k set to v
WithField(row, k, v) == [row EXCEPT ![k] = v]

\* C11: a rule that reads an undefined indicator does not fire: the MACD
\* status is neutral when any of the four MACD values is undefined, the band
\* position is middle_band when close or a band is undefined, an undefined rsi
\* adds nothing to the strength (the score is that of a neutral rsi of 50) and
\* an undefined volume or volume_sma adds nothing (the score is that of a
\* volume of 0 against a volume_sma of 100).
C11_UndefinedNeverFires ==
    LET cur == probe.current
        prev == probe.previous
        strength == probe.signal.signal_strength
    IN  probe.done
          => /\ (cur["macd"] = NaN \/ cur["macdsignal"] = NaN
                   \/ prev["macd"] = NaN \/ prev["macdsignal"] = NaN)
                  => probe.macd = "neutral"
             /\ (cur["close"] = NaN \/ cur["bb_upper"] = NaN \/ cur["bb_lower"] = NaN)
                  => probe.bb_position = "middle_band"
             /\ cur["rsi"] = NaN
                  => strength = _calculate_signal_strength(WithField(cur, "rsi", 50), <<>>)
             /\ (cur["volume"] = NaN \/ cur["volume_sma"] = NaN)
                  => strength = _calculate_signal_strength(
                                   WithField(WithField(cur, "volume", 0),
                                             "volume_sma", 100), <<>>)

\* a row whose rsi, previous macd and volume_sma are undefined while its
\* volume and current macd are defined
C11_Witness ==
    /\ probe.done
    /\ probe.current["rsi"] = NaN
    /\ probe.current["volume"] = 151
    /\ probe.current["volume_sma"] = NaN
    /\ probe.current["macd"] = 1
    /\ probe.current["macdsignal"] = 0
    /\ probe.previous["macd"] = NaN
    /\ probe.macd = "neutral"
    /\ probe.signal.signal_strength = 50

\* C12: in the snapshot of the real strategy sma_20, sma_50, ema_12, ema_26
\* and volume_24h are null when the indicator of the current row is undefined
\* and the row's value otherwise (a value of 0 stays 0); rsi is 50 when the
\* row's rsi is undefined and the row's rsi otherwise.
C12_UndefinedBecomesNull ==
    LET cur == probe.current
        sig == probe.signal
        Copied(out, k) == out = (IF cur[k] = NaN THEN Null ELSE cur[k])
    IN  probe.done
          => /\ Copied(sig.sma_20, "ma_20")
             /\ Copied(sig.sma_50, "ma_50")
             /\ Copied(sig.ema_12, "ema_12")
             /\ Copied(sig.ema_26, "ema_26")
             /\ Copied(sig.volume_24h, "volume")
             /\ sig.rsi = (IF cur["rsi"] = NaN THEN 50 ELSE cur["rsi"])

\* a snapshot with a null next to a real 0 and an rsi that fell back to 50
C12_Witness ==
    /\ probe.done
    /\ probe.current["ma_20"] = NaN
    /\ probe.current["ma_50"] = 0
    /\ probe.current["ema_12"] = 10400
    /\ probe.current["volume"] = NaN
    /\ probe.current["rsi"] = NaN
    /\ probe.signal.sma_20 = Null
    /\ probe.signal.sma_50 = 0
    /\ probe.signal.volume_24h = Null
    /\ probe.signal.rsi = 50

\* C17: for three consecutive rows with defined MACD values the statuses of
\* two consecutive candles are never both bullish_crossover and never both
\* bearish_crossover.
C17_CrossoverOnOneCandle ==
    (probe.done
       /\ \A k \in {"macd", "macdsignal"} :
             probe.current[k] # NaN /\ probe.previous[k] # NaN /\ probe.older[k] # NaN)
      => /\ ~(probe.macd_previous = "bullish_crossover"
                /\ probe.macd = "bullish_crossover")
         /\ ~(probe.macd_previous = "bearish_crossover"
                /\ probe.macd = "bearish_crossover")

\* the MACD line crossed above on the previous candle and is still above on
\* the current one, which reports neutral
C17_Witness ==
    /\ probe.done
    /\ probe.older["macd"] = 0
    /\ probe.older["macdsignal"] = 0
    /\ probe.previous["macd"] = 1
    /\ probe.previous["macdsignal"] = 0
    /\ probe.current["macd"] = 1
    /\ probe.current["macdsignal"] = 0
    /\ probe.macd_previous = "bullish_crossover"
    /\ probe.macd = "neutral"

\* C19: with defined values and both bands above zero the position is
\* lower_band_bounce, upper_band_bounce or middle_band, never upper_band or
\* lower_band.
C19_PositiveBandsNeverPlainBand ==
    (probe.done
       /\ probe.current["close"] # NaN
       /\ probe.current["bb_upper"] # NaN /\ probe.current["bb_upper"] > 0
       /\ probe.current["bb_lower"] # NaN /\ probe.current["bb_lower"] > 0)
      => probe.bb_position
           \in {"lower_band_bounce", "upper_band_bounce", "middle_band"}

\* a close above the upper band is reported as a bounce
C19_Witness ==
    /\ probe.done
    /\ probe.current["bb_lower"] = 10000
    /\ probe.current["bb_upper"] = 11000
    /\ probe.current["close"] = 11001
    /\ probe.bb_position = "upper_band_bounce"

\* macd, bb_position and signal_strength (in hundredths) of the five scenarios
\* in the order the mock lists them
ListedScenarios ==
    << <<"bullish_crossover", "lower_band_bounce", 75>>,
       <<"bearish_crossover", "upper_band_bounce", 65>>,
       <<"neutral", "middle_band", 50>>,
       <<"bullish_crossover", "lower_band_bounce", 85>>,
       <<"bearish_divergence", "upper_band", 70>> >>

\* C16: in the mock under TEST_MODE mock_cycles starts at 0, grows by exactly
\* one in every cycle that passes the 50-row check and the cooldown gate,
\* whether the dispatch then succeeds or fails, and in no other cycle; the
\* cycle that finds the counter at k sends macd, bb_position and
\* signal_strength of scenario k mod 5.
C16_ScenariosRoundRobin ==
    (cls = MOCK /\ TEST_MODE)
      => LET k == Cycle.mock_before
             expected == ListedScenarios[(k % 5) + 1]
             dispatched == pc[1] = "post" \/ Cycle.posts = 1
         IN  /\ Cycle.outcome = "none" => mock_cycles = 0
             /\ dispatched
                  => /\ mock_cycles = k + 1
                     /\ Cycle.signal.macd = expected[1]
                     /\ Cycle.signal.bb_position = expected[2]
                     /\ Cycle.signal.signal_strength = expected[3]
             /\ ~dispatched => mock_cycles = k
             /\ Returned
                  => (dispatched <=> (Monitored /\ Cycle.n >= 50
                                        /\ Cycle.outcome # "rate_limited"))

\* the sixth attempt, whose POST failed, is back at the first scenario
C16_Witness ==
    /\ cls = MOCK
    /\ TEST_MODE
    /\ Returned
    /\ Cycle.mock_before = 5
    /\ mock_cycles = 6
    /\ Cycle.resp.status = 500
    /\ Cycle.signal.macd = "bullish_crossover"
    /\ Cycle.signal.signal_strength = 75

\* C18: under sequential cycles and a non-decreasing clock the timestamp is
\* never reset to None once set, never decreases, each new value is at least
\* W seconds above the value it replaces (300 real, 30 mock under TEST_MODE),
\* and the value stored is the time read at the start of
\* _send_portfolio_webhook, which is not before the time the cycle passed the
\* gate.
C18_TimestampAdvancesByWindow ==
    [][ LET W == IF cls = MOCK /\ TEST_MODE THEN 30 ELSE 300
        IN  /\ last_portfolio_signal # None
                 => /\ last_portfolio_signal' # None
                    /\ last_portfolio_signal' >= last_portfolio_signal
            /\ (last_portfolio_signal # None
                  /\ last_portfolio_signal' # last_portfolio_signal)
                 => last_portfolio_signal' >= last_portfolio_signal + W
            /\ last_portfolio_signal' # last_portfolio_signal
                 => /\ last_portfolio_signal' = cyc[1].send_time
                    /\ cyc[1].gate_time # None
                    /\ cyc[1].send_time >= cyc[1].gate_time ]_vars

\* a dispatch replaced an earlier timestamp with a time read after the gate
C18_Witness ==
    /\ Returned
    /\ Cycle.outcome = "sent"
    /\ Cycle.before # None
    /\ last_portfolio_signal = Cycle.send_time
    /\ Cycle.send_time > Cycle.gate_time
    /\ last_portfolio_signal > Cycle.before

\* the snapshot of the cycle cannot be assembled: float() raises on a cell of
\* the current row (the mock under TEST_MODE does not read the row)
Raises ==
    /\ ~(cls = MOCK /\ TEST_MODE)
    /\ \E k \in {"rsi", "volume"} : Cycle.current[k] = BAD

\* C13: no error reaches the host: whatever the dataframe holds and whatever
\* the POST does (transport exception, status other than 200, unparsable
\* body, unexpected exception) populate_entry_trend returns; a cycle whose
\* snapshot cannot be assembled is aborted with no POST and the timestamp as
\* the cycle found it.
C13_NoErrorReachesHost ==
    /\ pc[1] # "crashed"
    /\ Cycle.outcome # "raised"
    /\ Cycle.posts = 1 => (Returned /\ Cycle.report # "none")
    /\ (Returned /\ Monitored /\ Cycle.n >= 50
          /\ Cycle.outcome # "rate_limited" /\ Raises)
         => /\ Cycle.outcome = "aborted"
            /\ Cycle.posts = 0
            /\ Cycle.signal = NoSignal
            /\ last_portfolio_signal = Cycle.before
    /\ Cycle.outcome = "aborted" => (Returned /\ Raises)

\* a malformed row after an earlier dispatch: the cycle is dropped and the
\* timestamp of that dispatch stays
C13_Witness ==
    /\ Returned
    /\ Cycle.outcome = "aborted"
    /\ Cycle.current["rsi"] = BAD
    /\ Cycle.before # None
    /\ last_portfolio_signal = Cycle.before
    /\ Cycle.posts = 0

\* C14: the strategy never signals a trade: once populate_entry_trend has
\* returned enter_long is 0, and once populate_exit_trend has returned
\* exit_long is 0, for monitored and unmonitored pairs and whatever the cycle
\* did (suppressed, insufficient data, sent, failed dispatch, caught
\* exception).
C14_NeverSignalsTrade ==
    /\ Returned => Cycle.enter_long = 0
    /\ Cycle.exit_long # None => (Returned /\ Cycle.exit_long = 0)
    /\ Returned
         => Cycle.outcome \in {"unmonitored", "insufficient_data", "rate_limited",
                               "sent", "dispatch_failed", "aborted"}

\* a strong snapshot was dispatched and both columns are 0
C14_Witness ==
    /\ Returned
    /\ Cycle.outcome = "sent"
    /\ Cycle.signal.signal_strength >= 75
    /\ Cycle.enter_long = 0
    /\ Cycle.exit_long = 0

\* C15: with TEST_MODE off the mock is in sync with the real strategy: run
\* side by side on the same dataframes, clock readings and HTTP outcomes the
\* two POST in the same cycles, send equal payloads (MACD status, BB position,
\* signal_strength, indicator fields) and hold equal timestamps after every
\* cycle.
C15_MockInSyncWithReal ==
    /\ twin.mock.posted = twin.real.posted
    /\ twin.mock.signal = twin.real.signal
    /\ twin.mock.last_portfolio_signal = twin.real.last_portfolio_signal
    /\ twin.mock.outcome = twin.real.outcome

\* both instances have dispatched a crossover that starts from equal lines,
\* after an earlier dispatch
C15_Witness ==
    /\ twin.real.posted
    /\ twin.mock.posted
    /\ twin.real.signal.macd = "bullish_crossover"
    /\ twin.mock.signal.macd = "bullish_crossover"
    /\ twin.real.outcome = "sent"
    /\ twin.real.signal.timestamp >= 300
    /\ twin.mock.last_portfolio_signal = clock

====
